---- MODULE Spec2Model ----
(***************************************************************************)
(* peon-ping hook handler (src/hooks/scripts/peon.py).                     *)
(*                                                                         *)
(* The process is started once per hook event.  Everything it remembers    *)
(* lives in three files: config.json (Config), .state.json (State) and the *)
(* .paused marker.  One step of the model is one whole run of main(), or   *)
(* one step of the environment (the pause CLI, an edit of config.json, the *)
(* clock).                                                                 *)
(*                                                                         *)
(* Conventions                                                             *)
(*  - a Python dict read only through .get(key, default) is a total        *)
(*    function whose value for an absent key is that default ("" for a     *)
(*    last_played entry, <<>> for prompt_timestamps, {} for                *)
(*    agent_sessions); config.categories keeps its key set, because        *)
(*    .get(category, True) distinguishes an absent key from a false one;   *)
(*  - a candidate sound {file: f, ...} is its file f, the only field the   *)
(*    picker reads;                                                        *)
(*  - time.time() is the variable now, in whole seconds;                   *)
(*  - cwd / project only decorate the title text and are left out: the     *)
(*    title is the pair (marker, status);                                  *)
(*  - config and stateFile hold the document of a file that parses to a    *)
(*    JSON object; disk says whether the file is such a file (FileKinds).  *)
(***************************************************************************)
EXTENDS Integers, Sequences, FiniteSets, TLC

VARIABLES
    config,     \* contents of config.json
    paused,     \* TRUE iff the .paused marker file exists
    stateFile,  \* contents of .state.json
    packs,      \* packs[p][c]: the sounds of category c in pack p's openpeon.json
    now,        \* the clock
    out,        \* what the most recent run of main() read and did (NoRun: none yet)
    disk,       \* disk.config, disk.state: what open() and json.load() make of each file
    inflight,   \* per hook process of SpecOverlap: what it loaded and has not saved yet
    played      \* history: per category, the file of the most recent sound selection

vars == <<config, paused, stateFile, packs, now, out, disk, inflight, played>>

----------------------------------------------------------------------------
(* Bounds of the model *)

\* config.json of Spec sets at most this many categories to false at a time
MaxDisabled == 2
\* the clock of SpecBurst stops here
BurstMaxTime == 15
\* a UserPromptSubmit is only taken while fewer timestamps than this are stored
MaxStamps == 3
\* longest candidate list SpecPick draws
MaxSounds == 3

----------------------------------------------------------------------------
(* Value spaces *)

Categories ==
    {"session.start", "task.acknowledge", "task.complete", "input.required", "user.spam"}

Files == {"A.wav", "B.wav", "C.wav"}

\* the value .get(category, '') gives for a category never played
NoFile == ""

\* session ids; "" is what event.get('session_id', '') gives without the field
SessionIds == {"", "s1"}

EventNames == {"SessionStart", "UserPromptSubmit", "Stop", "Notification", "PreToolUse"}

NotificationTypes == {"permission_prompt", "idle_prompt", ""}

PermissionModes == {"", "delegate"}

\* the events the host sends: notification_type comes with Notification only
Events ==
    {e \in [hook_event_name : EventNames, notification_type : NotificationTypes,
            session_id : SessionIds, permission_mode : PermissionModes] :
        e.hook_event_name # "Notification" => e.notification_type = ""}

PackNames == {"peon"}

\* what reading a JSON file can meet:
\*   ok          it parses to an object
\*   absent      open() raises FileNotFoundError
\*   unreadable  open() or read() raises another OSError
\*   malformed   json.load() raises JSONDecodeError
\*   undecodable the bytes are not UTF-8: read() raises UnicodeDecodeError
\*   not_object  it parses, to a list, a number, a string or null
FileKinds == {"ok", "absent", "unreadable", "malformed", "undecodable", "not_object"}

\* the hook processes that may run at once
Procs == {"p1", "p2"}

----------------------------------------------------------------------------
(* Files as load_json returns them *)

\* the fallback of load_json(CONFIG_PATH, {...}): what main() runs with when
\* config.json is absent or unreadable
DefaultConfig ==
    [enabled |-> TRUE, desktop_notifications |-> TRUE, active_pack |-> "peon",
     annoyed_threshold |-> 3, annoyed_window_seconds |-> 10,
     categories |-> [c \in {} |-> TRUE]]

\* load_json(STATE_PATH) of an absent file is {}: every .get gives its default
EmptyState ==
    [last_played |-> [c \in Categories |-> NoFile],
     prompt_timestamps |-> <<>>,
     agent_sessions |-> {}]

\* the packs directory of Spec and SpecBurst: one pack, with a category of two
\* files, one of a single file, one that lists the same file twice, and two the
\* manifest does not have
StockPacks ==
    [p \in PackNames |->
        [c \in Categories |->
            CASE c = "task.complete"    -> <<"A.wav", "B.wav">>
              [] c = "task.acknowledge" -> <<"B.wav">>
              [] c = "input.required"   -> <<"C.wav", "C.wav">>
              [] OTHER                  -> <<>>]]

\* load_json(path, default) on a file of kind `kind` whose document, when it has
\* one, is `content`.  raised: the exception is none of the three the except
\* clause names (UnicodeDecodeError is a ValueError but no JSONDecodeError);
\* object: the value returned has a .get
load_json(kind, content, default) ==
    CASE kind = "ok" -> [raised |-> FALSE, object |-> TRUE, value |-> content]
      [] kind \in {"absent", "unreadable", "malformed"} ->
            [raised |-> FALSE, object |-> TRUE, value |-> default]
      [] kind = "undecodable" -> [raised |-> TRUE, object |-> FALSE, value |-> default]
      [] kind = "not_object" -> [raised |-> FALSE, object |-> FALSE, value |-> default]

\* both files as the installation normally has them
FilesOk == [config |-> "ok", state |-> "ok"]

----------------------------------------------------------------------------
(* Helpers of main() *)

\* cat_config.get(category, True)
CatGet(cat_config, category) ==
    IF category \in DOMAIN cat_config THEN cat_config[category] ELSE TRUE

\* mutant: the kill switch is not read
ConfigEnabled_Ignored(cfg) == TRUE

\* config.get('enabled', True)
ConfigEnabled(cfg) == cfg.enabled

\* perm_mode in ('delegate',)
IsDelegate(perm_mode) == perm_mode = "delegate"

\* mutant: state['agent_sessions'] = [session_id]
MarkAgent_Overwrite(state, session_id) ==
    [state EXCEPT !.agent_sessions = {session_id}]

\* mutant: the delegate session is not added before the save
MarkAgent_Forgotten(state, session_id) == state

\* agent_sessions.add(session_id); state['agent_sessions'] = list(agent_sessions)
MarkAgent(state, session_id) ==
    [state EXCEPT !.agent_sessions = @ \cup {session_id}]

\* mutant: the membership test is dropped
IsSuppressed_Never(state, session_id) == FALSE

\* session_id in agent_sessions
IsSuppressed(state, session_id) == session_id \in state.agent_sessions

----------------------------------------------------------------------------
(* check_annoyed *)

\* mutant: <= for <
InWindow_Inclusive(t, window_sec, nowT) == nowT - t <= window_sec

\* the list comprehension's filter: t is kept iff now - t < window_sec
InWindow(t, window_sec, nowT) == nowT - t < window_sec

\* mutant: > for >=
ReachesThreshold_Strict(n, threshold) == n > threshold

\* len(ts) >= threshold
ReachesThreshold(n, threshold) == n >= threshold

\* check_annoyed(state, threshold, window_sec) run at time nowT:
\* the state it leaves and the value it returns
check_annoyed(state, threshold, window_sec, nowT) ==
    LET kept == SelectSeq(state.prompt_timestamps,
                          LAMBDA t : InWindow(t, window_sec, nowT))
        ts == Append(kept, nowT)
    IN  [state |-> [state EXCEPT !.prompt_timestamps = ts],
         result |-> ReachesThreshold(Len(ts), threshold)]

----------------------------------------------------------------------------
(* pick_sound *)

\* mutant: the last file is not excluded
Pool_All(sounds, last) == sounds

\* the pool random.choice draws from
Pool(sounds, last) ==
    IF Len(sounds) <= 1 THEN sounds
    ELSE SelectSeq(sounds, LAMBDA s : s # last)

\* mutant: the pick is not written to state['last_played']
pick_sound_Forgets(manifest, category, state) ==
    LET pool == Pool(manifest[category], state.last_played[category])
    IN  IF manifest[category] = <<>>
            THEN {[state |-> state, pick |-> NoFile, raised |-> FALSE]}
        ELSE IF pool = <<>> THEN {[state |-> state, pick |-> NoFile, raised |-> TRUE]}
        ELSE {[state |-> state, pick |-> pool[i], raised |-> FALSE] : i \in 1..Len(pool)}

\* pick_sound(pack_dir, category, state): every outcome random.choice allows.
\* called: the manifest was looked up; pick: the file chosen (NoFile for None);
\* raised: random.choice(pool) raised IndexError on an empty pool.
pick_sound(manifest, category, state) ==
    LET sounds == manifest[category]
        last == state.last_played[category]
        pool == Pool(sounds, last)
    IN  IF sounds = <<>> THEN {[state |-> state, pick |-> NoFile, raised |-> FALSE]}
        ELSE IF pool = <<>> THEN {[state |-> state, pick |-> NoFile, raised |-> TRUE]}
        ELSE {[state |-> [state EXCEPT !.last_played[category] = pool[i]],
               pick |-> pool[i], raised |-> FALSE] : i \in 1..Len(pool)}

----------------------------------------------------------------------------
(* main(): the mapping of hook events to CESP categories *)

\* what main() holds after "Map hook events to CESP categories" when it has not
\* returned (handled), or that it returned there (~handled)
Decision(handled, category, status, marker, notify, state, checked, burst) ==
    [handled |-> handled, category |-> category, status |-> status,
     marker |-> marker, notify |-> notify, state |-> state,
     checked |-> checked, burst |-> burst]

\* the UserPromptSubmit branch:
\*   if (cat_config.get('user.spam', True) and check_annoyed(state, threshold, window))
\* `and` evaluates check_annoyed, which appends to state, only when the toggle is true
ClassifyPrompt(cfg, state, nowT) ==
    LET cat_config == cfg.categories
        spam == CatGet(cat_config, "user.spam")
        r == check_annoyed(state, cfg.annoyed_threshold,
                           cfg.annoyed_window_seconds, nowT)
        category ==
            IF spam /\ r.result THEN "user.spam"
            ELSE IF CatGet(cat_config, "task.acknowledge") THEN "task.acknowledge"
            ELSE ""
    IN  Decision(TRUE, category, "working", "", FALSE,
                 IF spam THEN r.state ELSE state, spam, spam /\ r.result)

\* mutant: Stop without the title marker
ClassifyStop_NoMarker(state) ==
    Decision(TRUE, "task.complete", "done", "", FALSE, state, FALSE, FALSE)

\* the Stop branch
ClassifyStop(state) ==
    Decision(TRUE, "task.complete", "done", "* ", FALSE, state, FALSE, FALSE)

\* mutant: no return in the else branches
ClassifyOther_FallsThrough(state) ==
    Decision(TRUE, "", "", "", FALSE, state, FALSE, FALSE)

\* the two else branches: return
ClassifyOther(state) ==
    Decision(FALSE, "", "", "", FALSE, state, FALSE, FALSE)

\* the if / elif chain over event_name and ntype
Classify(event, cfg, state, nowT) ==
    LET event_name == event.hook_event_name
        ntype == event.notification_type
    IN  IF event_name = "SessionStart"
            THEN Decision(TRUE, "session.start", "ready", "", FALSE, state, FALSE, FALSE)
        ELSE IF event_name = "UserPromptSubmit"
            THEN ClassifyPrompt(cfg, state, nowT)
        ELSE IF event_name = "Stop"
            THEN ClassifyStop(state)
        ELSE IF event_name = "Notification" /\ ntype = "permission_prompt"
            THEN Decision(TRUE, "input.required", "needs approval", "* ", TRUE,
                          state, FALSE, FALSE)
        ELSE IF event_name = "Notification" /\ ntype = "idle_prompt"
            THEN Decision(TRUE, "task.complete", "done", "* ", TRUE, state, FALSE, FALSE)
        ELSE ClassifyOther(state)

\* mutant: the toggle is not applied
ClearDisabled_Never(category, cat_config) == category

\* "Category enabled check": the category main() goes on with
ClearDisabled(category, cat_config) ==
    IF category # "" /\ ~CatGet(cat_config, category) THEN "" ELSE category

\* mutant: the pause marker is not consulted
ShouldPick_IgnorePause(category, isPaused) == category # ""

\* "if category and not paused": whether pick_sound is called
ShouldPick(category, isPaused) == category # "" /\ ~isPaused

\* the first three conjuncts of the desktop-notification test, the ones that
\* decide whether is_terminal_focused() is called at all
WantsNotification(notify, isPaused, desktop_notif) ==
    notify /\ ~isPaused /\ desktop_notif

----------------------------------------------------------------------------
(* main(): one run *)

\* no run of main() since the last step of the environment
NoRun == [path |-> "none"]

\* the record of a run that returned before the mapping, or in its else branches
Quiet(path, event, state, saves) ==
    [path |-> path, event |-> event, loaded |-> state, saves |-> saves,
     category0 |-> "", category |-> "", status |-> "", marker |-> "",
     notify |-> FALSE, checked |-> FALSE, burst |-> FALSE, title |-> FALSE,
     selected |-> FALSE, pick |-> NoFile, raised |-> FALSE,
     focus_checked |-> FALSE, focused |-> TRUE, notified |-> FALSE,
     final |-> IF saves = <<>> THEN state ELSE saves[Len(saves)]]

\* mutant: save_json before pick_sound
HandledSaves_Early(d, p) == <<d.state>>

\* the one save_json of the handled path, after pick_sound: an IndexError in
\* pick_sound ends the process before it
HandledSaves(d, p) == IF p.raised THEN <<>> ELSE <<p.state>>

\* the run from the mapping on: title, sound, save, notification
Handled(event, cfg, isPaused, state, manifest, d) ==
    LET category == ClearDisabled(d.category, cfg.categories)
        selected == ShouldPick(category, isPaused)
        picks == IF selected THEN pick_sound(manifest, category, d.state)
                 ELSE {[state |-> d.state, pick |-> NoFile, raised |-> FALSE]}
        wants == WantsNotification(d.notify, isPaused, cfg.desktop_notifications)
        \* focused: whether a terminal is in the foreground, which
        \* is_terminal_focused() reports when the conjuncts before it hold (its
        \* failure is the answer False); TRUE where nothing depends on it
        answers == IF wants THEN BOOLEAN ELSE {TRUE}
    IN  {[path |-> "handled", event |-> event, loaded |-> state,
          saves |-> HandledSaves(d, p),
          category0 |-> d.category, category |-> category, status |-> d.status,
          marker |-> d.marker, notify |-> d.notify, checked |-> d.checked,
          burst |-> d.burst, title |-> TRUE,
          selected |-> selected, pick |-> p.pick, raised |-> p.raised,
          focus_checked |-> wants /\ ~p.raised, focused |-> focused,
          notified |-> wants /\ ~p.raised /\ ~focused,
          final |-> p.state] :
            p \in picks, focused \in answers}

\* main() on a parsed event: every record of a run it can make.
\* saves: the documents written to .state.json, in order.
Run(event, cfg, isPaused, state, manifests, nowT) ==
    IF ~ConfigEnabled(cfg) THEN {Quiet("disabled", event, state, <<>>)}
    ELSE IF IsDelegate(event.permission_mode)
        THEN {Quiet("delegate", event, state, <<MarkAgent(state, event.session_id)>>)}
    ELSE IF IsSuppressed(state, event.session_id)
        THEN {Quiet("suppressed", event, state, <<>>)}
    ELSE LET d == Classify(event, cfg, state, nowT)
         IN  IF ~d.handled THEN {Quiet("unhandled", event, state, <<>>)}
             ELSE Handled(event, cfg, isPaused, state,
                          manifests[cfg.active_pack], d)

\* the record of a run that an exception ended before main() did anything
Crashed(event, state) ==
    [Quiet("crashed", event, state, <<>>) EXCEPT !.raised = TRUE]

\* main() from its two load_json calls on, with the files as they are on disk.
\* A Config that is no object fails at config.get('enabled'), a State that is
\* no object at state.get('agent_sessions'), which a disabled run never reaches.
Invoke(event, files, cfgDoc, isPaused, stDoc, manifests, nowT) ==
    LET c == load_json(files.config, cfgDoc, DefaultConfig)
        st == load_json(files.state, stDoc, EmptyState)
    IN  IF c.raised \/ st.raised \/ ~c.object
            THEN {Crashed(event, st.value)}
        ELSE IF ConfigEnabled(c.value) /\ ~st.object
            THEN {Crashed(event, st.value)}
        ELSE Run(event, c.value, isPaused, st.value, manifests, nowT)

\* .state.json after the writes of a run
Saved(file, saves) == IF saves = <<>> THEN file ELSE saves[Len(saves)]

\* what a finished run leaves: the State file, and the selection it made
Commit(r) ==
    /\ stateFile' = Saved(stateFile, r.saves)
    /\ disk' = IF r.saves = <<>> THEN disk ELSE [disk EXCEPT !.state = "ok"]
    /\ played' = IF r.pick = NoFile THEN played
                 ELSE [played EXCEPT ![r.category] = r.pick]
    /\ out' = r

\* one invocation of the hook with `event` on stdin
Main(event) ==
    /\ event.hook_event_name = "UserPromptSubmit"
           => Len(stateFile.prompt_timestamps) < MaxStamps
    /\ \E r \in Invoke(event, disk, config, paused, stateFile, packs, now) :
            Commit(r)
    /\ UNCHANGED <<config, paused, packs, now, inflight>>

----------------------------------------------------------------------------
(* The environment *)

\* peon --pause
CliPause ==
    /\ paused' = TRUE
    /\ out' = NoRun
    /\ UNCHANGED <<config, stateFile, packs, now, disk, inflight, played>>

\* peon --resume
CliResume ==
    /\ paused' = FALSE
    /\ out' = NoRun
    /\ UNCHANGED <<config, stateFile, packs, now, disk, inflight, played>>

\* peon --toggle
CliToggle ==
    /\ paused' = ~paused
    /\ out' = NoRun
    /\ UNCHANGED <<config, stateFile, packs, now, disk, inflight, played>>

\* the user flips `enabled` in config.json
EditEnabled ==
    /\ config' = [config EXCEPT !.enabled = ~@]
    /\ out' = NoRun
    /\ UNCHANGED <<paused, stateFile, packs, now, disk, inflight, played>>

\* the user flips `desktop_notifications` in config.json
EditDesktop ==
    /\ config' = [config EXCEPT !.desktop_notifications = ~@]
    /\ out' = NoRun
    /\ UNCHANGED <<paused, stateFile, packs, now, disk, inflight, played>>

\* the user sets categories[c] to false, or removes the key again
EditCategory(c) ==
    /\ c \notin DOMAIN config.categories
           => Cardinality(DOMAIN config.categories) < MaxDisabled
    /\ LET cc == config.categories
       IN  config' = [config EXCEPT !.categories =
                IF c \in DOMAIN cc
                THEN [x \in DOMAIN cc \ {c} |-> cc[x]]
                ELSE [x \in DOMAIN cc \cup {c} |-> IF x = c THEN FALSE ELSE cc[x]]]
    /\ out' = NoRun
    /\ UNCHANGED <<paused, stateFile, packs, now, disk, inflight, played>>

\* a second passes
Tick(max) ==
    /\ now < max
    /\ now' = now + 1
    /\ out' = NoRun
    /\ UNCHANGED <<config, paused, stateFile, packs, disk, inflight, played>>

----------------------------------------------------------------------------
(* Spec: non-overlapping invocations, any event, with the pause CLI and edits
   of config.json between them.  The invocations arrive within one second. *)

Init ==
    /\ config = DefaultConfig
    /\ paused = FALSE
    /\ stateFile = EmptyState
    /\ packs = StockPacks
    /\ now = 0
    /\ out = NoRun
    /\ disk = FilesOk
    /\ inflight = [p \in Procs |-> NoRun]
    /\ played = stateFile.last_played

Next ==
    \/ \E event \in Events : Main(event)
    \/ CliPause
    \/ CliResume
    \/ CliToggle
    \/ EditEnabled
    \/ \E c \in Categories : EditCategory(c)

Spec == Init /\ [][Next]_vars

----------------------------------------------------------------------------
(* SpecBurst: one session submitting prompts while the clock runs, under the
   default window and under a shorter one *)

BurstConfigs ==
    {[DefaultConfig EXCEPT !.annoyed_threshold = th, !.annoyed_window_seconds = w] :
        th \in {2, 3}, w \in {5, 10}}

PromptEvent ==
    [hook_event_name |-> "UserPromptSubmit", notification_type |-> "",
     session_id |-> "s1", permission_mode |-> ""]

InitBurst ==
    /\ config \in BurstConfigs
    /\ paused = FALSE
    /\ stateFile = EmptyState
    /\ packs = StockPacks
    /\ now = 0
    /\ out = NoRun
    /\ disk = FilesOk
    /\ inflight = [p \in Procs |-> NoRun]
    /\ played = stateFile.last_played

NextBurst ==
    \/ Main(PromptEvent)
    \/ Tick(BurstMaxTime)

SpecBurst == InitBurst /\ [][NextBurst]_vars

----------------------------------------------------------------------------
(* SpecPick: the picker on every candidate list of up to MaxSounds files and
   every remembered file, reached through Stop, idle_prompt and SessionStart *)

SoundLists == UNION {[1..n -> Files] : n \in 0..MaxSounds}

PickEvents ==
    {e \in Events :
        /\ e.session_id = "s1"
        /\ e.permission_mode = ""
        /\ \/ e.hook_event_name \in {"Stop", "SessionStart"}
           \/ e.notification_type = "idle_prompt"}

InitPick ==
    /\ config = DefaultConfig
    /\ paused = FALSE
    /\ \E sounds \in SoundLists : packs = [p \in PackNames |-> [c \in Categories |-> sounds]]
    /\ \E last \in Files \cup {NoFile} :
          stateFile = [EmptyState EXCEPT !.last_played = [c \in Categories |-> last]]
    /\ now = 0
    /\ out = NoRun
    /\ disk = FilesOk
    /\ inflight = [p \in Procs |-> NoRun]
    /\ played = stateFile.last_played

NextPick ==
    \/ \E event \in PickEvents : Main(event)
    \/ CliToggle

SpecPick == InitPick /\ [][NextPick]_vars

----------------------------------------------------------------------------
(* SpecNotify: Notification events of one session, with the pause CLI and edits
   of desktop_notifications and of the category toggles between them *)

NotifyEvents ==
    {e \in Events :
        /\ e.session_id = "s1"
        /\ e.permission_mode = ""
        /\ e.hook_event_name = "Notification"}

NextNotify ==
    \/ \E event \in NotifyEvents : Main(event)
    \/ CliToggle
    \/ EditEnabled
    \/ EditDesktop
    \/ \E c \in Categories : EditCategory(c)

SpecNotify == Init /\ [][NextNotify]_vars

----------------------------------------------------------------------------
(* SpecOverlap: hook processes that overlap.  A process reads .state.json at
   line 294 and writes it at line 316 or 389 with nothing that holds the file
   in between, so another process may read and write between the two. *)

\* the events of SpecOverlap
OverlapEvents == {e \in Events : e.hook_event_name = "Stop"}

\* process p starts on `event` and loads the State file
Load(p, event) ==
    /\ inflight[p] = NoRun
    /\ inflight' = [inflight EXCEPT ![p] =
                        [path |-> "loaded", event |-> event, state |-> stateFile]]
    /\ UNCHANGED <<config, paused, stateFile, packs, now, out, disk, played>>

\* process p runs the rest of main() on what it loaded; its save replaces
\* whatever the file holds by then
Finish(p) ==
    /\ inflight[p] # NoRun
    /\ \E r \in Invoke(inflight[p].event, disk, config, paused, inflight[p].state,
                        packs, now) :
            Commit(r)
    /\ inflight' = [inflight EXCEPT ![p] = NoRun]
    /\ UNCHANGED <<config, paused, packs, now>>

NextOverlap ==
    \/ \E p \in Procs, event \in OverlapEvents : Load(p, event)
    \/ \E p \in Procs : Finish(p)

SpecOverlap == Init /\ [][NextOverlap]_vars

----------------------------------------------------------------------------
(* SpecCorrupt: non-overlapping invocations while config.json and .state.json
   get damaged and restored *)

\* config.json becomes a file of kind k (ok: the user restores its document)
DamageConfig(k) ==
    /\ disk.config # k
    /\ disk' = [disk EXCEPT !.config = k]
    /\ out' = NoRun
    /\ UNCHANGED <<config, paused, stateFile, packs, now, inflight, played>>

\* .state.json becomes a file of kind k other than ok; its document is lost
DamageState(k) ==
    /\ k # "ok" /\ disk.state # k
    /\ disk' = [disk EXCEPT !.state = k]
    /\ stateFile' = EmptyState
    /\ out' = NoRun
    /\ UNCHANGED <<config, paused, packs, now, inflight, played>>

\* the events of SpecCorrupt
CorruptEvents ==
    {e \in Events : e.session_id = "s1" /\ e.hook_event_name \in {"Stop", "PreToolUse"}}

NextCorrupt ==
    \/ \E event \in CorruptEvents : Main(event)
    \/ \E k \in FileKinds : DamageConfig(k)
    \/ \E k \in FileKinds : DamageState(k)
    \/ EditEnabled
    \/ CliToggle

SpecCorrupt == Init /\ [][NextCorrupt]_vars

----------------------------------------------------------------------------
(* Vocabulary of the properties.  In a state with out # NoRun, config, paused
   and now are those of the run out records: main() changes none of them, and
   every step of the environment resets out. *)

Ran == out.path # "none"

\* "the category's toggle in config.categories is explicitly false"
ToggledOff(c) == c \in DOMAIN config.categories /\ config.categories[c] = FALSE

\* the decision rows of the mapping table: <<category, status, marker, notify>>
TableRow(name, ntype, fires) ==
    CASE name = "SessionStart" -> <<"session.start", "ready", "", FALSE>>
      [] name = "UserPromptSubmit" ->
            <<IF fires /\ ~ToggledOff("user.spam") THEN "user.spam"
              ELSE IF ~ToggledOff("task.acknowledge") THEN "task.acknowledge"
              ELSE "",
              "working", "", FALSE>>
      [] name = "Stop" -> <<"task.complete", "done", "* ", FALSE>>
      [] name = "Notification" /\ ntype = "permission_prompt" ->
            <<"input.required", "needs approval", "* ", TRUE>>
      [] name = "Notification" /\ ntype = "idle_prompt" ->
            <<"task.complete", "done", "* ", TRUE>>
      [] OTHER -> <<"", "", "", FALSE>>

\* the event has a decision row
InTable(name, ntype) ==
    \/ name \in {"SessionStart", "UserPromptSubmit", "Stop"}
    \/ name = "Notification" /\ ntype \in {"permission_prompt", "idle_prompt"}

\* the burst detector fires on the loaded timestamps at the time of the run
BurstFires ==
    LET ts == out.loaded.prompt_timestamps
    IN  Cardinality({i \in DOMAIN ts : now - ts[i] < config.annoyed_window_seconds}) + 1
            >= config.annoyed_threshold

\* the run was for a session that is not flagged and does not get flagged
NotSuppressed ==
    /\ out.event.permission_mode # "delegate"
    /\ out.event.session_id \notin out.loaded.agent_sessions

----------------------------------------------------------------------------
(* C1 *)

\* C1: an event of a session that is in the loaded agent_sessions, or that
\* carries permission_mode "delegate", selects no sound, sends no notification
\* and writes no title, whatever its name, the config and the pause marker; and
\* no run removes a session from the persisted agent_sessions, so this is so in
\* every later invocation.
C1_FlaggedSessionSilent ==
    Ran =>
        /\ out.loaded.agent_sessions \subseteq stateFile.agent_sessions
        /\ (\/ out.event.session_id \in out.loaded.agent_sessions
            \/ out.event.permission_mode = "delegate")
              => ~out.selected /\ out.pick = NoFile /\ ~out.notified /\ ~out.title

\* a Stop of a flagged session arrives with sounds on and not paused
C1_Witness ==
    /\ Ran
    /\ out.event.hook_event_name = "Stop"
    /\ out.event.permission_mode = ""
    /\ out.event.session_id \in out.loaded.agent_sessions
    /\ config.enabled /\ ~paused

----------------------------------------------------------------------------
(* C2 *)

\* C2 as claimed: after an event with permission_mode "delegate" its session_id
\* is in the persisted agent_sessions, whatever the config (enabled = false too).
C2_Original ==
    Ran /\ out.event.permission_mode = "delegate"
        => out.event.session_id \in stateFile.agent_sessions

\* C2 amended: when config.enabled is true, after an event with permission_mode
\* "delegate" its session_id is in the persisted agent_sessions, whatever the
\* event name, the pause marker and the category toggles; with enabled = false
\* the run returns before marking.
C2_MarkedWhenEnabled ==
    Ran /\ out.event.permission_mode = "delegate" =>
        IF config.enabled
        THEN /\ out.event.session_id \in stateFile.agent_sessions
             /\ out.saves # <<>>
        ELSE stateFile = out.loaded

\* a paused delegate Notification of a session that was not flagged yet
C2_Witness ==
    /\ Ran
    /\ out.event.permission_mode = "delegate"
    /\ out.event.hook_event_name = "Notification"
    /\ out.event.session_id \notin out.loaded.agent_sessions
    /\ out.event.session_id \in stateFile.agent_sessions
    /\ config.enabled /\ paused

----------------------------------------------------------------------------
(* C3 *)

\* C3: with config.enabled false a run selects no category and writes nothing:
\* the State file after the run is the State file before it, for delegate and
\* UserPromptSubmit events too.
C3_DisabledNoWrite ==
    Ran /\ ~config.enabled =>
        /\ out.category0 = "" /\ out.category = ""
        /\ ~out.selected /\ ~out.title /\ ~out.notified
        /\ out.saves = <<>>
        /\ stateFile = out.loaded

\* a delegate UserPromptSubmit of an unflagged session under enabled = false
C3_Witness ==
    /\ Ran
    /\ ~config.enabled
    /\ out.event.permission_mode = "delegate"
    /\ out.event.hook_event_name = "UserPromptSubmit"
    /\ out.event.session_id \notin out.loaded.agent_sessions

----------------------------------------------------------------------------
(* C4 *)

\* C4: with an enabled config and a session that is not suppressed, every event
\* of the mapping table is handled, and the decision before the category
\* toggle clears anything is the table's row.
C4_MappingTable ==
    Ran /\ config.enabled /\ NotSuppressed
        /\ InTable(out.event.hook_event_name, out.event.notification_type)
        => /\ out.path = "handled"
           /\ <<out.category0, out.status, out.marker, out.notify>>
                = TableRow(out.event.hook_event_name, out.event.notification_type,
                           BurstFires)

\* the third prompt of a burst maps to user.spam
C4_Witness ==
    /\ Ran
    /\ out.path = "handled"
    /\ out.event.hook_event_name = "UserPromptSubmit"
    /\ out.category0 = "user.spam"
    /\ Len(out.loaded.prompt_timestamps) = 2

----------------------------------------------------------------------------
(* C5, C6: the burst detector, under SpecBurst *)

\* the stored timestamps of the run, and those the run persisted before its own
LoadedStamps == out.loaded.prompt_timestamps

Survivors == SubSeq(stateFile.prompt_timestamps, 1, Len(stateFile.prompt_timestamps) - 1)

\* C5: is_burst is true exactly when the stored timestamps that survive the
\* pruning, plus the current one, number at least threshold.  With threshold 3
\* and window 10, prompts at t, t+1, t+2 burst on the third, and prompts at
\* t, t+1, t+15 burst on none.
C5_BurstIffThreshold ==
    Ran /\ out.path = "handled" =>
        /\ out.checked
        /\ stateFile.prompt_timestamps = Append(Survivors, now)
        /\ out.burst <=> (Len(Survivors) + 1 >= config.annoyed_threshold)
        /\ out.burst <=> (out.category0 = "user.spam")
        /\ config.annoyed_threshold = 3 /\ config.annoyed_window_seconds = 10 =>
             /\ LoadedStamps = <<>> => ~out.burst
             /\ \A t \in 0..BurstMaxTime :
                  /\ LoadedStamps = <<t>> /\ now = t + 1 => ~out.burst
                  /\ LoadedStamps = <<t, t + 1>> /\ now = t + 2 => out.burst
                  /\ LoadedStamps = <<t, t + 1>> /\ now = t + 15 => ~out.burst

\* the third prompt, at t + 2 after prompts at t and t + 1, is a burst
C5_Witness ==
    /\ Ran
    /\ config.annoyed_threshold = 3 /\ config.annoyed_window_seconds = 10
    /\ LoadedStamps = <<0, 1>>
    /\ now = 2
    /\ out.burst

\* C6 as claimed: the prune drops exactly the timestamps with now - t > window
\* and keeps the others in order, one of age exactly window included.
C6_Original ==
    Ran /\ out.path = "handled" =>
        Survivors = SelectSeq(LoadedStamps,
                        LAMBDA t : ~(now - t > config.annoyed_window_seconds))

\* C6 amended: the prune drops exactly the timestamps with now - t >= window
\* and keeps every younger one in order; a timestamp whose age equals window
\* exactly is dropped and does not count toward the threshold.
C6_PruneAtWindow ==
    Ran /\ out.path = "handled" =>
        /\ Survivors = SelectSeq(LoadedStamps,
                          LAMBDA t : ~(now - t >= config.annoyed_window_seconds))
        /\ \A i \in DOMAIN LoadedStamps :
              now - LoadedStamps[i] = config.annoyed_window_seconds
                 => \A j \in DOMAIN Survivors : Survivors[j] # LoadedStamps[i]
        /\ (\A i \in DOMAIN LoadedStamps :
                now - LoadedStamps[i] >= config.annoyed_window_seconds)
              => (out.burst <=> config.annoyed_threshold <= 1)

\* a prompt arrives exactly window seconds after a stored one and within the
\* window of another
C6_Witness ==
    /\ Ran
    /\ out.path = "handled"
    /\ \E i \in DOMAIN LoadedStamps :
          now - LoadedStamps[i] = config.annoyed_window_seconds
    /\ Len(Survivors) = 1

----------------------------------------------------------------------------
(* C7 *)

\* C7 as claimed: every UserPromptSubmit handled for an enabled config and a
\* session that is not suppressed appends the current time to the pruned
\* prompt_timestamps and persists it, whatever the category toggles.
C7_Original ==
    Ran /\ config.enabled /\ NotSuppressed
        /\ out.event.hook_event_name = "UserPromptSubmit"
        => stateFile.prompt_timestamps =
              Append(SelectSeq(LoadedStamps,
                               LAMBDA t : now - t < config.annoyed_window_seconds),
                     now)

----------------------------------------------------------------------------
(* C8, under SpecPick *)

\* the candidate list and the remembered file the picker of the run read
PickedFrom == packs[config.active_pack][out.category]

PickedLast == out.loaded.last_played[out.category]

\* C8 as claimed: the selector returns none for an empty list, the only
\* candidate of a one-entry list even when it equals last_played, and for two or
\* more candidates a member of the list whose file differs from last_played.
C8_Original ==
    Ran /\ out.selected =>
        /\ ~out.raised
        /\ PickedFrom = <<>> => out.pick = NoFile
        /\ Len(PickedFrom) = 1 => out.pick = PickedFrom[1]
        /\ Len(PickedFrom) >= 2 =>
              /\ \E i \in DOMAIN PickedFrom : out.pick = PickedFrom[i]
              /\ out.pick # PickedLast

----------------------------------------------------------------------------
(* C9 *)

\* the table row of the run's event
RunRow == TableRow(out.event.hook_event_name, out.event.notification_type, BurstFires)

\* C9: a handled event whose category is toggled off in config.categories
\* selects no sound and leaves last_played as loaded, and its title carries the
\* status and marker of its table row, which do not depend on the toggles; no
\* run selects a sound for a toggled-off category or changes its last_played.
C9_DisabledCategory ==
    Ran /\ out.path = "handled" =>
        /\ out.title /\ out.status = RunRow[2] /\ out.marker = RunRow[3]
        /\ out.selected => out.category # "" /\ ~ToggledOff(out.category)
        /\ ~out.selected =>
              out.pick = NoFile /\ stateFile.last_played = out.loaded.last_played
        /\ RunRow[1] = "" \/ ToggledOff(RunRow[1]) => ~out.selected
        /\ \A c \in Categories :
              ToggledOff(c) => stateFile.last_played[c] = out.loaded.last_played[c]

\* a Stop with task.complete toggled off, not paused, after a task.complete
\* sound was played: the title still says done
C9_Witness ==
    /\ Ran
    /\ out.path = "handled"
    /\ out.event.hook_event_name = "Stop"
    /\ ToggledOff("task.complete")
    /\ ~paused
    /\ out.loaded.last_played["task.complete"] # NoFile
    /\ out.title /\ out.status = "done" /\ out.marker = "* "

----------------------------------------------------------------------------
(* C10 *)

\* C10: with the pause marker present, every table event of a session that is
\* not suppressed, under an enabled config, writes the title, selects no sound
\* (last_played stays as loaded) and sends no desktop notification.
C10_PausedTitleOnly ==
    Ran /\ paused /\ config.enabled /\ NotSuppressed
        /\ InTable(out.event.hook_event_name, out.event.notification_type)
        => /\ out.path = "handled"
           /\ out.title
           /\ ~out.selected /\ out.pick = NoFile /\ ~out.raised
           /\ stateFile.last_played = out.loaded.last_played
           /\ ~out.notified

\* a paused idle_prompt with desktop notifications on and its category enabled
C10_Witness ==
    /\ Ran
    /\ paused
    /\ out.path = "handled"
    /\ out.event.notification_type = "idle_prompt"
    /\ out.category = "task.complete"
    /\ config.desktop_notifications
    /\ out.title

----------------------------------------------------------------------------
(* C11, under SpecNotify *)

\* everything the desktop notification is said to need
NotificationDue ==
    /\ config.enabled
    /\ NotSuppressed
    /\ out.event.hook_event_name = "Notification"
    /\ out.event.notification_type \in {"permission_prompt", "idle_prompt"}
    /\ ~paused
    /\ config.desktop_notifications
    /\ ~out.focused

\* C11 as claimed: a desktop notification is sent if and only if the config is
\* enabled, the session is not suppressed, the event is a Notification of type
\* permission_prompt or idle_prompt, no pause marker is present,
\* desktop_notifications is true and the terminal is not focused, whatever the
\* category toggles.
C11_Original == Ran => (out.notified <=> NotificationDue)

----------------------------------------------------------------------------
(* C12 *)

\* C12: with non-overlapping invocations the persisted agent_sessions holds
\* every session the run loaded: it is the loaded set on every path but the
\* delegate one, and the loaded set with the event's session_id on that one.
C12_AgentSessionsGrow ==
    Ran =>
        /\ out.loaded.agent_sessions \subseteq stateFile.agent_sessions
        /\ stateFile.agent_sessions =
               IF out.path = "delegate"
                   THEN out.loaded.agent_sessions \cup {out.event.session_id}
               ELSE out.loaded.agent_sessions

\* a run of another session that wrote the State while s1 was flagged, and a
\* delegate run that added a session to a set that was not empty
C12_Witness ==
    /\ Ran
    /\ \/ /\ out.path = "handled"
          /\ out.saves # <<>>
          /\ out.loaded.agent_sessions = {"s1"}
       \/ /\ out.path = "delegate"
          /\ out.loaded.agent_sessions = {"s1"}
          /\ stateFile.agent_sessions = {"", "s1"}

----------------------------------------------------------------------------
(* C13, under SpecOverlap *)

\* C13 as claimed: no write of the State removes a session from agent_sessions,
\* also when invocations overlap.
C13_Original == [][stateFile.agent_sessions \subseteq stateFile'.agent_sessions]_vars

----------------------------------------------------------------------------
(* C14 *)

\* the run selected a file for category c
SelectedFor(c) == out.selected /\ out.category = c /\ out.pick # NoFile

\* C14: an entry of last_played changes only in a run that selected a file for
\* its category, and then to that file; it is never set back to "no file"; and
\* it is the file of the most recent selection for the category.
C14_LastPlayedKept ==
    Ran =>
        \A c \in Categories :
            /\ stateFile.last_played[c] =
                   IF SelectedFor(c) THEN out.pick ELSE out.loaded.last_played[c]
            /\ out.loaded.last_played[c] # NoFile => stateFile.last_played[c] # NoFile
            /\ stateFile.last_played[c] = played[c]
            /\ SelectedFor(c) =>
                   /\ ~paused /\ ~ToggledOff(c)
                   /\ \E i \in DOMAIN packs[config.active_pack][c] :
                          packs[config.active_pack][c][i] = out.pick

\* a selection replaced A.wav by B.wav for task.complete and left the entry of
\* task.acknowledge alone
C14_Witness ==
    /\ Ran
    /\ SelectedFor("task.complete")
    /\ out.loaded.last_played["task.complete"] = "A.wav"
    /\ stateFile.last_played["task.complete"] = "B.wav"
    /\ out.loaded.last_played["task.acknowledge"] = "B.wav"
    /\ stateFile.last_played["task.acknowledge"] = "B.wav"

----------------------------------------------------------------------------
(* C15 *)

----------------------------------------------------------------------------
(* C16 *)

\* the event is outside the mapping table
Unhandled == ~InTable(out.event.hook_event_name, out.event.notification_type)

\* the run had no effect outside the State
NoOutput == ~out.title /\ ~out.selected /\ out.pick = NoFile /\ ~out.notified

\* C16 as claimed: an unhandled event has no effect and leaves the State
\* unchanged.
C16_Original == Ran /\ Unhandled => NoOutput /\ stateFile = out.loaded

\* C16: an unhandled event makes no title update, no selection and no
\* notification; it leaves the State unchanged unless it carries permission_mode
\* "delegate" while the config is enabled, when it adds its session_id to
\* agent_sessions and changes nothing else.
C16_UnhandledNoOutput ==
    Ran /\ Unhandled =>
        /\ NoOutput
        /\ out.saves = IF out.path = "delegate" THEN <<stateFile>> ELSE <<>>
        /\ stateFile =
               IF config.enabled /\ out.event.permission_mode = "delegate"
                   THEN [out.loaded EXCEPT !.agent_sessions =
                             @ \cup {out.event.session_id}]
               ELSE out.loaded

\* an unhandled event of a session that is not suppressed, enabled config, a
\* State that has content
C16_Witness ==
    /\ Ran
    /\ out.path = "unhandled"
    /\ out.event.hook_event_name = "PreToolUse"
    /\ config.enabled
    /\ NotSuppressed
    /\ out.loaded # EmptyState
    /\ stateFile = out.loaded

----------------------------------------------------------------------------
(* C17, under SpecCorrupt *)

\* the file kinds C17 is about
Damaged == FileKinds \ {"ok"}

\* C17 as claimed: with config.json or .state.json absent, unreadable or
\* invalid, the load does not raise and the run is one on the fallback (default
\* Config, empty State), each file recovering by itself.
C17_Original ==
    [][out'.path # "none" /\ (disk.config \in Damaged \/ disk.state \in Damaged) =>
           /\ out'.path # "crashed"
           /\ out' \in Run(out'.event,
                           IF disk.config \in Damaged THEN DefaultConfig ELSE config,
                           paused,
                           IF disk.state \in Damaged THEN EmptyState ELSE stateFile,
                           packs, now)]_vars

----------------------------------------------------------------------------
(* C18 *)

\* the list holds two distinct files
TwoDistinct(sounds) == \E i, j \in DOMAIN sounds : sounds[i] # sounds[j]

\* C18: a selection for a category whose list holds two distinct files does
\* not return the file of the selection before it for that category, whatever
\* ran in between.
C18_NoImmediateRepeat ==
    [][/\ out'.path = "handled"
       /\ out'.pick # NoFile
       /\ TwoDistinct(packs[config.active_pack][out'.category])
       => out'.pick # played[out'.category]]_vars

\* a second selection for task.complete (A.wav, B.wav)
C18_Witness ==
    /\ Ran
    /\ out.category = "task.complete"
    /\ out.pick # NoFile
    /\ out.loaded.last_played["task.complete"] # NoFile
    /\ TwoDistinct(packs[config.active_pack]["task.complete"])
    /\ out.pick # out.loaded.last_played["task.complete"]

----------------------------------------------------------------------------
(* C19, under SpecPick *)

\* C19 as claimed: on a non-empty list the selector does not fail and returns a
\* file of the list, also when every entry equals last_played.
C19_Original ==
    Ran /\ out.selected /\ PickedFrom # <<>> =>
        /\ ~out.raised
        /\ \E i \in DOMAIN PickedFrom : PickedFrom[i] = out.pick

====
